---- MODULE Spec2Model ----
(***************************************************************************)
(* Rule evaluation engine of projecttoyger/securityrules.                  *)
(*                                                                         *)
(* The engine (engine.go) owns an insertion-ordered slice of rules.        *)
(* AddRule validates a rule and appends a copy; IsAllowed filters the      *)
(* rules by resource/action and evaluates every condition of every         *)
(* matching rule.  The engine dispatches on the KEY under which a          *)
(* condition is stored ("userRole", "resourceOwner"); the expected value   *)
(* handed to matchUserRole is the condition's Value.                       *)
(*                                                                         *)
(* Representation.  A Go pointer that may be nil is a sequence of length   *)
(* 0 (nil) or 1.  An interface{} value is a record [shape, v] where v is   *)
(* always a sequence of strings, so that values of different dynamic       *)
(* types can be compared.  A Go map is a function whose domain is the set  *)
(* of keys present.  A call's outcome is a record                          *)
(* [kind, allowed, err, examined, evaluated]: kind is "return" or "panic", *)
(* examined counts the calls of Rule.matches, evaluated the calls of       *)
(* evaluateRule.                                                           *)
(***************************************************************************)
EXTENDS Integers, Sequences, FiniteSets, TLC

VARIABLES rules, last, objs, mu, procs, registry

vars == <<rules, last, objs, mu, procs, registry>>

\* rules    the engine's slice of rules
\* last     the last call made on the engine (sequential specifications)
\* objs     the rule objects the callers hold, each with the indices of the
\*          stored rules that share its maps
\* mu       the engine's sync.RWMutex
\* procs    the goroutines calling the engine (concurrent specifications)
\* registry the evaluator registry and the log of its registrations

\* Largest number of rules held by the engine in the model.
MaxRules == 2

(***************************************************************************)
(* Enumerations (unnamed/part_000) and error codes (errors.go)             *)
(***************************************************************************)
Allow == "allow"
Deny == "deny"
ResourceRule == "resource"
Low == "LOW"
BasicCondition == "basic"
RoleCondition == "role"
CustomCondition == "custom"
Equals == "equals"
In == "in"
Wildcard == "*"

ErrCodeInvalidRule == "INVALID_RULE"
ErrCodeInvalidContext == "INVALID_CONTEXT"
ErrCodeInvalidCondition == "INVALID_CONDITION"
ErrCodeEvaluation == "EVALUATION_ERROR"

(***************************************************************************)
(* interface{} values                                                      *)
(***************************************************************************)
StrVal(s) == [shape |-> "string", v |-> <<s>>]
StrsVal(q) == [shape |-> "strings", v |-> q]
BoolVal == [shape |-> "bool", v |-> <<"true">>]
NilVal == [shape |-> "nil", v |-> <<>>]

EmptyMap == [k \in {} |-> NilVal]

\* m[k] = v added to (or replaced in) a Go map
MapPut(m, k, v) == [x \in (DOMAIN m) \cup {k} |-> IF x = k THEN v ELSE m[x]]

\* All orders in which `range` may visit the keys of a map
Perms(S) ==
    {f \in [1..Cardinality(S) -> S] : \A i, j \in 1..Cardinality(S) : f[i] = f[j] => i = j}

(***************************************************************************)
(* Errors (errors.go).  An error is [type, ErrorCode, Message]; type "nil" *)
(* is the nil error, ptr tells a pointer from a value.  Message is the     *)
(* tuple of the parts Sprintf joins.                                       *)
(***************************************************************************)
NoError == [type |-> "nil", ptr |-> FALSE, ErrorCode |-> "", Message |-> <<>>]

\* &ErrInvalidRule{Message: msg} and its siblings: pointers, ErrorCode left empty
ErrInvalidRule(msg) ==
    [type |-> "ErrInvalidRule", ptr |-> TRUE, ErrorCode |-> "", Message |-> msg]
ErrInvalidContext(msg) ==
    [type |-> "ErrInvalidContext", ptr |-> TRUE, ErrorCode |-> "", Message |-> msg]
ErrInvalidCondition(msg) ==
    [type |-> "ErrInvalidCondition", ptr |-> TRUE, ErrorCode |-> "", Message |-> msg]

\* The Code() methods: the ErrorCode field, or the category's code when empty
Code(e) ==
    IF e.ErrorCode # "" THEN e.ErrorCode
    ELSE CASE e.type = "ErrInvalidRule" -> ErrCodeInvalidRule
           [] e.type = "ErrInvalidContext" -> ErrCodeInvalidContext
           [] e.type = "ErrInvalidCondition" -> ErrCodeInvalidCondition
           [] OTHER -> ErrCodeEvaluation

(***************************************************************************)
(* Condition (unnamed/part_000)                                            *)
(***************************************************************************)
Condition(t, op, val) == [Type |-> t, Operation |-> op, Value |-> val, Message |-> ""]

ValidateCondition(c) ==
    IF c.Type = "" THEN ErrInvalidCondition(<<"condition type is required">>)
    ELSE IF c.Operation = "" THEN ErrInvalidCondition(<<"condition operation is required">>)
    ELSE IF c.Value.shape = "nil" THEN ErrInvalidCondition(<<"condition value is required">>)
    ELSE NoError

\* The category helpers: err.(T) with the struct type T, which a *T held
\* by the interface does not satisfy
IsInvalidRuleError(e) == e.type = "ErrInvalidRule" /\ ~e.ptr
IsInvalidContextError(e) == e.type = "ErrInvalidContext" /\ ~e.ptr
IsInvalidConditionError(e) == e.type = "ErrInvalidCondition" /\ ~e.ptr
IsEvaluationError(e) == e.type = "ErrEvaluation" /\ ~e.ptr

(***************************************************************************)
(* Rule (rule.go): builders, validate, matches                             *)
(***************************************************************************)
NewRule ==
    [ID |-> "", Type |-> ResourceRule, Severity |-> Low, Resource |-> "", Action |-> "",
     Effect |-> Deny, Conditions |-> EmptyMap, Metadata |-> EmptyMap]

ForResource(r, resource) == [r EXCEPT !.Resource = resource]
WithAction(r, action) == [r EXCEPT !.Action = action]
WithEffect(r, effect) == [r EXCEPT !.Effect = effect]
WithType(r, ruleType) == [r EXCEPT !.Type = ruleType]
WithID(r, id) == [r EXCEPT !.ID = id]

WithCondition(r, key, value) ==
    [r EXCEPT !.Conditions = MapPut(@, key, Condition(BasicCondition, Equals, value))]

\* WithStructuredCondition that stores the condition without validating it
WithStructuredCondition_StoresAnyway(r, key, condition) ==
    [r EXCEPT !.Conditions = MapPut(@, key, condition)]

WithStructuredCondition(r, key, condition) ==
    IF ValidateCondition(condition) # NoError THEN r
    ELSE [r EXCEPT !.Conditions = MapPut(@, key, condition)]

WithMetadata(r, key, value) == [r EXCEPT !.Metadata = MapPut(@, key, StrVal(value))]

\* The loop of validate over r.Conditions, visiting the keys in `order`
RECURSIVE validateConditions(_, _)
validateConditions(r, order) ==
    IF order = <<>> THEN NoError
    ELSE LET key == Head(order)
             err == ValidateCondition(r.Conditions[key])
         IN IF err # NoError
            THEN ErrInvalidRule(<<"invalid condition", key>> \o err.Message)
            ELSE validateConditions(r, Tail(order))

\* validate without the check of the rule type
validate_NoTypeCheck(r, order) ==
    IF r.Resource = "" THEN ErrInvalidRule(<<"resource is required">>)
    ELSE IF r.Action = "" THEN ErrInvalidRule(<<"action is required">>)
    ELSE IF r.Effect # Allow /\ r.Effect # Deny
         THEN ErrInvalidRule(<<"effect must be either allow or deny">>)
    ELSE validateConditions(r, order)

validate(r, order) ==
    IF r.Resource = "" THEN ErrInvalidRule(<<"resource is required">>)
    ELSE IF r.Action = "" THEN ErrInvalidRule(<<"action is required">>)
    ELSE IF r.Effect # Allow /\ r.Effect # Deny
         THEN ErrInvalidRule(<<"effect must be either allow or deny">>)
    ELSE IF r.Type = "" THEN ErrInvalidRule(<<"rule type is required">>)
    ELSE validateConditions(r, order)

\* matches with the wildcard honoured for the resource only
matches_WildcardResourceOnly(r, resource, action) ==
    /\ (r.Resource = resource \/ r.Resource = Wildcard)
    /\ r.Action = action

matches(r, resource, action) ==
    /\ (r.Resource = resource \/ r.Resource = Wildcard)
    /\ (r.Action = action \/ r.Action = Wildcard)

(***************************************************************************)
(* Outcomes of a call                                                      *)
(***************************************************************************)
Ret(allowed, err, examined, evaluated) ==
    [kind |-> "return", allowed |-> allowed, err |-> err,
     examined |-> examined, evaluated |-> evaluated]

\* A run-time panic: the call does not return
Panic(examined, evaluated) ==
    [kind |-> "panic", allowed |-> FALSE, err |-> NoError,
     examined |-> examined, evaluated |-> evaluated]

NoCall ==
    [op |-> "none", rule |-> <<>>, resource |-> "", action |-> "", ctx |-> <<>>,
     ret |-> Ret(FALSE, NoError, 0, 0)]

(***************************************************************************)
(* Context (context.go)                                                    *)
(***************************************************************************)
NewContext == [user |-> EmptyMap, resource |-> EmptyMap, environment |-> EmptyMap]
\* WithUser that ignores a nil map (a map given as [nil, m])
WithUser_IgnoresNil(c, user) == IF user.nil THEN c ELSE [c EXCEPT !.user = user]

WithUser(c, user) == [c EXCEPT !.user = user]
WithResource(c, resource) == [c EXCEPT !.resource = resource]
WithEnvironment(c, env) == [c EXCEPT !.environment = env]

User(c) == c.user
Resource(c) == c.resource
Environment(c) == c.environment

(***************************************************************************)
(* Engine (engine.go)                                                      *)
(***************************************************************************)
\* for _, role := range roles { if role == requiredRole.(string) { return true } }
\* The type assertion panics when the expected value is not a string.
RECURSIVE rolesLoop(_, _)
rolesLoop(roles, requiredRole) ==
    IF roles = <<>> THEN "false"
    ELSE IF requiredRole.shape # "string" THEN "panic"
    ELSE IF Head(roles) = requiredRole.v[1] THEN "true"
    ELSE rolesLoop(Tail(roles), requiredRole)

\* matchUserRole that takes a context without role attributes for a match
matchUserRole_MissingIsMatch(ctx, requiredRole) ==
    LET user == ctx.user
        hasRoles == "roles" \in DOMAIN user /\ user["roles"].shape = "strings"
        hasRole == "role" \in DOMAIN user /\ user["role"].shape = "string"
        viaRoles == IF hasRoles THEN rolesLoop(user["roles"].v, requiredRole) ELSE "false"
    IN  IF ~hasRoles /\ ~hasRole THEN "true"
        ELSE IF viaRoles # "false" THEN viaRoles
        ELSE IF hasRole
             THEN IF requiredRole.shape # "string" THEN "panic"
                  ELSE IF user["role"].v[1] = requiredRole.v[1] THEN "true" ELSE "false"
             ELSE "false"

\* "true", "false", or "panic"
matchUserRole(ctx, requiredRole) ==
    LET user == ctx.user
        viaRoles == IF "roles" \in DOMAIN user /\ user["roles"].shape = "strings"
                    THEN rolesLoop(user["roles"].v, requiredRole)
                    ELSE "false"
    IN  IF viaRoles # "false" THEN viaRoles
        ELSE IF "role" \in DOMAIN user /\ user["role"].shape = "string"
             THEN IF requiredRole.shape # "string" THEN "panic"
                  ELSE IF user["role"].v[1] = requiredRole.v[1] THEN "true" ELSE "false"
             ELSE "false"

\* x == y on two interface{} values panics when both hold the same
\* dynamic type and that type (a slice) cannot be compared
Uncomparable(x, y) == x.shape = y.shape /\ x.shape \in {"strings", "list"}

\* "true", "false", or "panic".  A nil map reads as an empty one.
matchResourceOwner(ctx) ==
    IF "id" \in DOMAIN ctx.user /\ "owner" \in DOMAIN ctx.resource
    THEN IF Uncomparable(ctx.user["id"], ctx.resource["owner"]) THEN "panic"
         ELSE IF ctx.user["id"] = ctx.resource["owner"] THEN "true" ELSE "false"
    ELSE "false"

\* evaluateRule that takes a rule with a condition that does not hold as not
\* applying, and lets the decision pass it
RECURSIVE evaluateRule_UnmetPasses(_, _, _)
evaluateRule_UnmetPasses(rule, ctx, order) ==
    IF order = <<>> THEN Ret(rule.Effect = Allow, NoError, 0, 0)
    ELSE LET key == Head(order)
             condition == rule.Conditions[key]
         IN  CASE key = "userRole" ->
                    LET m == matchUserRole(ctx, condition.Value)
                    IN  IF m = "panic" THEN Panic(0, 0)
                        ELSE IF m = "false" THEN Ret(TRUE, NoError, 0, 0)
                        ELSE evaluateRule_UnmetPasses(rule, ctx, Tail(order))
               [] key = "resourceOwner" ->
                    LET m == matchResourceOwner(ctx)
                    IN  IF m = "panic" THEN Panic(0, 0)
                        ELSE IF m = "false" THEN Ret(TRUE, NoError, 0, 0)
                        ELSE evaluateRule_UnmetPasses(rule, ctx, Tail(order))
               [] OTHER -> evaluateRule_UnmetPasses(rule, ctx, Tail(order))

\* The loop of evaluateRule over rule.conditions, visiting the keys in `order`
RECURSIVE evaluateRule(_, _, _)
evaluateRule(rule, ctx, order) ==
    IF order = <<>> THEN Ret(rule.Effect = Allow, NoError, 0, 0)
    ELSE LET key == Head(order)
             condition == rule.Conditions[key]
         IN  CASE key = "userRole" ->
                    LET m == matchUserRole(ctx, condition.Value)
                    IN  IF m = "panic" THEN Panic(0, 0)
                        ELSE IF m = "false" THEN Ret(FALSE, NoError, 0, 0)
                        ELSE evaluateRule(rule, ctx, Tail(order))
               [] key = "resourceOwner" ->
                    LET m == matchResourceOwner(ctx)
                    IN  IF m = "panic" THEN Panic(0, 0)
                        ELSE IF m = "false" THEN Ret(FALSE, NoError, 0, 0)
                        ELSE evaluateRule(rule, ctx, Tail(order))
               [] OTHER -> evaluateRule(rule, ctx, Tail(order))

\* findMatchingRules that keeps only the matching rule added last
findMatchingRules_LastOnly(rs, resource, action) ==
    LET all == SelectSeq(rs, LAMBDA r : matches(r, resource, action))
    IN  IF all = <<>> THEN <<>> ELSE <<all[Len(all)]>>

findMatchingRules(rs, resource, action) ==
    SelectSeq(rs, LAMBDA r : matches(r, resource, action))

\* The loop of IsAllowed with first-match semantics: the first rule that
\* allows decides, a rule that does not is passed over
RECURSIVE evaluateMatching_FirstAllowWins(_, _, _, _)
evaluateMatching_FirstAllowWins(matching, ctx, examined, evaluated) ==
    IF matching = <<>> THEN {Ret(FALSE, NoError, examined, evaluated)}
    ELSE UNION { LET o == evaluateRule(Head(matching), ctx, order)
                 IN  IF o.kind = "panic" THEN {Panic(examined, evaluated + 1)}
                     ELSE IF o.err # NoError
                          THEN {Ret(FALSE, o.err, examined, evaluated + 1)}
                     ELSE IF o.allowed
                          THEN {Ret(TRUE, NoError, examined, evaluated + 1)}
                     ELSE evaluateMatching_FirstAllowWins(Tail(matching), ctx,
                                                          examined, evaluated + 1)
                 : order \in Perms(DOMAIN Head(matching).Conditions) }

\* The loop of IsAllowed that goes on after a rule that does not allow and
\* denies at the end
RECURSIVE evaluateMatching_ContinuePastUnmet(_, _, _, _)
evaluateMatching_ContinuePastUnmet(matching, ctx, examined, evaluated) ==
    IF matching = <<>> THEN {Ret(TRUE, NoError, examined, evaluated)}
    ELSE UNION { LET o == evaluateRule(Head(matching), ctx, order)
                 IN  IF o.kind = "panic" THEN {Panic(examined, evaluated + 1)}
                     ELSE IF o.err # NoError
                          THEN {Ret(FALSE, o.err, examined, evaluated + 1)}
                     ELSE { IF x.kind = "return" /\ x.err = NoError /\ ~o.allowed
                            THEN [x EXCEPT !.allowed = FALSE] ELSE x :
                            x \in evaluateMatching_ContinuePastUnmet(Tail(matching), ctx,
                                                                     examined, evaluated + 1) }
                 : order \in Perms(DOMAIN Head(matching).Conditions) }

\* The loop of IsAllowed over matchingRules: the set of outcomes over all
\* orders in which the conditions of each rule may be visited
RECURSIVE evaluateMatching(_, _, _, _)
evaluateMatching(matching, ctx, examined, evaluated) ==
    IF matching = <<>> THEN {Ret(TRUE, NoError, examined, evaluated)}
    ELSE UNION { LET o == evaluateRule(Head(matching), ctx, order)
                 IN  IF o.kind = "panic" THEN {Panic(examined, evaluated + 1)}
                     ELSE IF o.err # NoError
                          THEN {Ret(FALSE, o.err, examined, evaluated + 1)}
                     ELSE IF ~o.allowed
                          THEN {Ret(FALSE, NoError, examined, evaluated + 1)}
                     ELSE evaluateMatching(Tail(matching), ctx, examined, evaluated + 1)
                 : order \in Perms(DOMAIN Head(matching).Conditions) }

\* IsAllowed without the early return for an empty set of matching rules
IsAllowedOutcomes_NoDefaultDeny(rs, resource, action, ctxp) ==
    IF ctxp = <<>>
    THEN {Ret(FALSE, ErrInvalidContext(<<"context is required">>), 0, 0)}
    ELSE evaluateMatching(findMatchingRules(rs, resource, action), ctxp[1], Len(rs), 0)

\* IsAllowed that looks at the context only after it has matched the rules
IsAllowedOutcomes_LateNilCheck(rs, resource, action, ctxp) ==
    LET matchingRules == findMatchingRules(rs, resource, action)
    IN  IF ctxp = <<>>
        THEN {Ret(FALSE, ErrInvalidContext(<<"context is required">>), Len(rs), 0)}
        ELSE IF Len(matchingRules) = 0
             THEN {Ret(FALSE, NoError, Len(rs), 0)}
             ELSE evaluateMatching(matchingRules, ctxp[1], Len(rs), 0)

IsAllowedOutcomes(rs, resource, action, ctxp) ==
    IF ctxp = <<>>
    THEN {Ret(FALSE, ErrInvalidContext(<<"context is required">>), 0, 0)}
    ELSE LET matchingRules == findMatchingRules(rs, resource, action)
         IN  IF Len(matchingRules) = 0
             THEN {Ret(FALSE, NoError, Len(rs), 0)}
             ELSE evaluateMatching(matchingRules, ctxp[1], Len(rs), 0)

\* AddRule that appends the rule before it looks at the validation result
AddRuleOutcomes_AppendFirst(rs, rulep) ==
    IF rulep = <<>>
    THEN {[rules |-> rs, ret |-> Panic(0, 0)]}
    ELSE { [rules |-> Append(rs, rulep[1]),
            ret |-> Ret(FALSE, validate(rulep[1], order), 0, 0)]
           : order \in Perms(DOMAIN rulep[1].Conditions) }

\* rule.validate() on a nil *Rule reads r.Resource: a nil dereference
AddRuleOutcomes(rs, rulep) ==
    IF rulep = <<>>
    THEN {[rules |-> rs, ret |-> Panic(0, 0)]}
    ELSE { LET err == validate(rulep[1], order)
           IN  IF err # NoError
               THEN [rules |-> rs, ret |-> Ret(FALSE, err, 0, 0)]
               ELSE [rules |-> Append(rs, rulep[1]), ret |-> Ret(FALSE, NoError, 0, 0)]
           : order \in Perms(DOMAIN rulep[1].Conditions) }

(***************************************************************************)
(* Inputs of the model                                                     *)
(***************************************************************************)
Base(resource, action, effect) ==
    WithEffect(WithAction(ForResource(NewRule, resource), action), effect)

RoleAdmin == Condition(RoleCondition, Equals, StrVal("admin"))
RoleAdminOrEditor == Condition(RoleCondition, In, StrsVal(<<"admin", "editor">>))
TimeCheck == Condition(CustomCondition, In, StrsVal(<<"morning">>))

ValidRules ==
    { Base("*", "read", Allow),
      Base("docs", "read", Deny),
      WithStructuredCondition(Base("docs", "read", Allow), "userRole", RoleAdmin),
      WithCondition(WithCondition(Base("docs", "*", Allow), "userRole", StrVal("admin")),
                    "resourceOwner", BoolVal),
      WithCondition(Base("*", "*", Deny), "resourceOwner", BoolVal),
      WithStructuredCondition(Base("docs", "read", Allow), "timeCheck", TimeCheck),
      WithCondition(WithStructuredCondition(Base("docs", "read", Allow),
                                            "userRole", RoleAdminOrEditor),
                    "resourceOwner", BoolVal) }

InvalidRules ==
    { Base("", "read", Allow),
      Base("docs", "", Allow),
      Base("docs", "read", "invalid"),
      WithType(Base("docs", "read", Allow), ""),
      WithCondition(Base("docs", "read", Allow), "userRole", NilVal),
      [Base("docs", "read", Allow) EXCEPT
          !.Conditions = MapPut(@, "userRole", Condition("", Equals, StrVal("admin")))],
      [Base("docs", "read", Deny) EXCEPT
          !.Conditions = MapPut(MapPut(@, "userRole", Condition(RoleCondition, "", StrVal("admin"))),
                                "resourceOwner", Condition(BasicCondition, Equals, BoolVal))] }

\* *Rule arguments of AddRule: nil or a pointer to a rule
RulePointers == {<<>>} \cup {<<r>> : r \in ValidRules \cup InvalidRules}

Resources == {"docs", "pods"}
Actions == {"read", "write"}

\* []interface{}{...}: a sequence that is not a []string
ListVal(q) == [shape |-> "list", v |-> q]

\* The role attributes of a user map: none, roles (a []string or a
\* []interface{}), or role (a string)
RoleAttributes ==
    { EmptyMap,
      [k \in {"roles"} |-> StrsVal(<<"admin">>)],
      [k \in {"roles"} |-> StrsVal(<<"user">>)],
      [k \in {"roles"} |-> ListVal(<<"admin">>)],
      [k \in {"role"} |-> StrVal("admin")] }

UserMaps == RoleAttributes \cup {MapPut(m, "id", StrVal("u1")) : m \in RoleAttributes}

ResourceMaps == {EmptyMap} \cup {[k \in {"owner"} |-> StrVal(o)] : o \in {"u1", "u2"}}

Contexts == {WithResource(WithUser(NewContext, u), r) : u \in UserMaps, r \in ResourceMaps}

\* *Context arguments of IsAllowed: nil or a pointer to a context
ContextPointers == {<<>>} \cup {<<c>> : c \in Contexts}

(***************************************************************************)
(* The engine as a state machine                                           *)
(***************************************************************************)
\* The zero sync.RWMutex: no writer, no reader
Unlocked == [w |-> "free", r |-> 0]

\* No caller-side object, no goroutine, no evaluator registry
NoCallers ==
    /\ objs = <<>>
    /\ procs = <<>>
    /\ registry = <<>>

\* NewEngine
Init ==
    /\ rules = <<>>
    /\ last = NoCall
    /\ mu = Unlocked
    /\ NoCallers

AddRule(rulep) ==
    \E o \in AddRuleOutcomes(rules, rulep) :
        /\ Len(o.rules) <= MaxRules
        /\ rules' = o.rules
        /\ last' = [NoCall EXCEPT !.op = "AddRule", !.rule = rulep, !.ret = o.ret]
        /\ UNCHANGED <<objs, mu, procs, registry>>

IsAllowed(resource, action, ctxp) ==
    \E o \in IsAllowedOutcomes(rules, resource, action, ctxp) :
        /\ last' = [NoCall EXCEPT !.op = "IsAllowed", !.resource = resource,
                                  !.action = action, !.ctx = ctxp, !.ret = o]
        /\ UNCHANGED <<rules, objs, mu, procs, registry>>

Next ==
    \/ \E rulep \in RulePointers : AddRule(rulep)
    \/ \E resource \in Resources, action \in Actions, ctxp \in ContextPointers :
           IsAllowed(resource, action, ctxp)

Spec == Init /\ [][Next]_vars

(***************************************************************************)
(* Rule.matches as a pure function: the inputs are drawn by the initial    *)
(* state and one step applies the function                                 *)
(***************************************************************************)
MatchRules ==
    { [NewRule EXCEPT !.Resource = res, !.Action = act, !.Effect = eff, !.Conditions = cs] :
        res \in {"docs", "pods", "*", ""}, act \in {"read", "write", "*", ""},
        eff \in {Allow, Deny},
        cs \in {EmptyMap, [k \in {"userRole"} |-> RoleAdmin]} }

InitMatches ==
    /\ rules = <<>>
    /\ mu = Unlocked
    /\ NoCallers
    /\ \E r \in MatchRules, resource \in {"docs", "pods", "*"}, action \in {"read", "write", "*"} :
           last = [NoCall EXCEPT !.op = "input", !.rule = <<r>>,
                                 !.resource = resource, !.action = action]

ApplyMatches ==
    /\ last.op = "input"
    /\ last' = [last EXCEPT !.op = "matches",
                            !.ret = Ret(matches(last.rule[1], last.resource, last.action),
                                        NoError, 0, 0)]
    /\ UNCHANGED <<rules, objs, mu, procs, registry>>

SpecMatches == InitMatches /\ [][ApplyMatches]_vars

(***************************************************************************)
(* Registration of one rule in a fresh engine, over every combination of   *)
(* valid and invalid fields                                                *)
(***************************************************************************)
ConditionSpace ==
    { RoleAdmin,
      Condition("", Equals, StrVal("admin")),
      Condition(RoleCondition, "", StrVal("admin")),
      Condition(BasicCondition, Equals, NilVal) }

ConditionMaps ==
    UNION { [K -> ConditionSpace] : K \in SUBSET {"userRole", "timeCheck"} }

RuleSpace ==
    { [NewRule EXCEPT !.Resource = res, !.Action = act, !.Effect = eff, !.Type = ty,
                      !.Conditions = cs] :
        res \in {"", "docs"}, act \in {"", "read"}, eff \in {Allow, Deny, "invalid", ""},
        ty \in {"", ResourceRule}, cs \in ConditionMaps }

InitRegistration ==
    /\ rules = <<>>
    /\ mu = Unlocked
    /\ NoCallers
    /\ \E r \in RuleSpace : last = [NoCall EXCEPT !.op = "input", !.rule = <<r>>]

ApplyAddRule ==
    /\ last.op = "input"
    /\ AddRule(last.rule)

SpecRegistration == InitRegistration /\ [][ApplyAddRule]_vars

(***************************************************************************)
(* One decision of an engine that holds one allow rule with one condition, *)
(* over the shapes of the expected value and of the context attributes     *)
(***************************************************************************)
ConditionRules ==
    { WithStructuredCondition(Base("docs", "read", Allow), "userRole",
                              Condition(RoleCondition, op, val)) :
        op \in {Equals, In},
        val \in {StrVal("admin"), StrsVal(<<"admin", "superuser">>), StrsVal(<<>>)} }
    \cup
    { WithCondition(Base("docs", "read", Allow), "resourceOwner", BoolVal),
      WithStructuredCondition(Base("docs", "read", Allow), "ownership",
                              Condition(CustomCondition, Equals, BoolVal)) }

ConditionUsers ==
    { [k \in K |-> CASE k = "roles" -> roles [] k = "role" -> role [] OTHER -> id] :
        K \in SUBSET {"roles", "role", "id"},
        roles \in {StrsVal(<<"editor">>), StrsVal(<<"admin">>),
                   StrsVal(<<"editor", "superuser">>), StrsVal(<<>>)},
        role \in {StrVal("admin"), StrVal("superuser")},
        id \in {StrVal("u1"), StrsVal(<<"u1">>), NilVal} }

ConditionResources ==
    { [k \in K |-> owner] :
        K \in SUBSET {"owner"},
        owner \in {StrVal("u1"), StrVal("u2"), StrsVal(<<"u1">>), StrsVal(<<"u2">>), NilVal} }

InitCondition ==
    /\ \E r \in ConditionRules : rules = <<r>>
    /\ \E u \in ConditionUsers, res \in ConditionResources :
          last = [NoCall EXCEPT !.op = "input",
                                !.ctx = <<WithResource(WithUser(NewContext, u), res)>>]
    /\ mu = Unlocked
    /\ NoCallers

ApplyIsAllowed ==
    /\ last.op = "input"
    /\ IsAllowed("docs", "read", last.ctx)

SpecCondition == InitCondition /\ [][ApplyIsAllowed]_vars

(***************************************************************************)
(* A caller that repeats one request while rules are added.  objs is       *)
(* [resource, action, ctx, deniedAt, defaulted]: the request, the number   *)
(* of stored rules at the first call that did not return true although a   *)
(* rule matched (0: no such call yet), and whether a call found no         *)
(* matching rule.                                                          *)
(***************************************************************************)
InitRepeat ==
    /\ rules = <<>>
    /\ last = NoCall
    /\ mu = Unlocked
    /\ \E c \in Contexts :
          objs = [resource |-> "docs", action |-> "read", ctx |-> <<c>>,
                  deniedAt |-> 0, defaulted |-> FALSE]
    /\ procs = <<>>
    /\ registry = <<>>

IsAllowedAgain ==
    \E o \in IsAllowedOutcomes(rules, objs.resource, objs.action, objs.ctx) :
        LET matched == \E i \in 1..Len(rules) :
                          matches(rules[i], objs.resource, objs.action)
        IN  /\ last' = [NoCall EXCEPT !.op = "IsAllowed", !.resource = objs.resource,
                                      !.action = objs.action, !.ctx = objs.ctx, !.ret = o]
            /\ objs' = [objs EXCEPT
                           !.deniedAt = IF @ = 0 /\ matched /\ ~(o.kind = "return" /\ o.allowed)
                                        THEN Len(rules) ELSE @,
                           !.defaulted = @ \/ ~matched]
            /\ UNCHANGED <<rules, mu, procs, registry>>

NextRepeat ==
    \/ \E r \in ValidRules \cup {Base("", "read", Allow)} : AddRule(<<r>>)
    \/ IsAllowedAgain

SpecRepeat == InitRepeat /\ [][NextRepeat]_vars

(***************************************************************************)
(* The setters of Context on one instance (context.go).  Here a map is     *)
(* [nil, m]: whether it is the nil map, and its entries.  objs is          *)
(* [heap, call, set]: the Context instances, the last call with the map it *)
(* was given and the pointer it returned, and the map last given for each  *)
(* part.                                                                   *)
(***************************************************************************)
NilMap == [nil |-> TRUE, m |-> EmptyMap]
MapRef(m) == [nil |-> FALSE, m |-> m]

\* c.WithUser(user) for the instance c = heap[p]: the instance is updated
\* and the same pointer is returned
WithUserAt(heap, p, user) == [heap |-> [heap EXCEPT ![p] = WithUser(@, user)], ret |-> p]
WithResourceAt(heap, p, resource) ==
    [heap |-> [heap EXCEPT ![p] = WithResource(@, resource)], ret |-> p]
WithEnvironmentAt(heap, p, env) ==
    [heap |-> [heap EXCEPT ![p] = WithEnvironment(@, env)], ret |-> p]

ContextMaps ==
    { NilMap, MapRef(EmptyMap), MapRef([k \in {"id"} |-> StrVal("u1")]),
      MapRef([k \in {"owner"} |-> StrVal("u1")]) }

InitContext ==
    /\ rules = <<>>
    /\ last = NoCall
    /\ mu = Unlocked
    /\ objs = [heap |-> << [user |-> MapRef(User(NewContext)),
                            resource |-> MapRef(Resource(NewContext)),
                            environment |-> MapRef(Environment(NewContext))] >>,
               call |-> [op |-> "NewContext", given |-> NilMap, returned |-> 1],
               set |-> [user |-> MapRef(EmptyMap), resource |-> MapRef(EmptyMap),
                        environment |-> MapRef(EmptyMap)]]
    /\ procs = <<>>
    /\ registry = <<>>

CallWithUser(m) ==
    /\ LET o == WithUserAt(objs.heap, 1, m)
       IN  objs' = [heap |-> o.heap,
                    call |-> [op |-> "WithUser", given |-> m, returned |-> o.ret],
                    set |-> [objs.set EXCEPT !.user = m]]
    /\ UNCHANGED <<rules, last, mu, procs, registry>>

CallWithResource(m) ==
    /\ LET o == WithResourceAt(objs.heap, 1, m)
       IN  objs' = [heap |-> o.heap,
                    call |-> [op |-> "WithResource", given |-> m, returned |-> o.ret],
                    set |-> [objs.set EXCEPT !.resource = m]]
    /\ UNCHANGED <<rules, last, mu, procs, registry>>

CallWithEnvironment(m) ==
    /\ LET o == WithEnvironmentAt(objs.heap, 1, m)
       IN  objs' = [heap |-> o.heap,
                    call |-> [op |-> "WithEnvironment", given |-> m, returned |-> o.ret],
                    set |-> [objs.set EXCEPT !.environment = m]]
    /\ UNCHANGED <<rules, last, mu, procs, registry>>

NextContext ==
    \E m \in ContextMaps : CallWithUser(m) \/ CallWithResource(m) \/ CallWithEnvironment(m)

SpecContext == InitContext /\ [][NextContext]_vars

(***************************************************************************)
(* JSON (unnamed/part_000, rule.go).  A JSON value is [j, of, v]: j is     *)
(* "string", "array", "bool", "number" or "null", of is the kind of the    *)
(* elements of an array, v the text of the value or of its elements.  A    *)
(* JSON object is a record of its members.  An object a caller holds is    *)
(* [what, rule, condition, nilConditions, nilMetadata]: a Rule or a        *)
(* Condition, and whether the maps of the Rule are nil (a nil map reads as *)
(* an empty one, and reflect.DeepEqual tells the two apart).               *)
(***************************************************************************)
IntVal(n) == [shape |-> "int", v |-> <<n>>]
FloatVal(n) == [shape |-> "float64", v |-> <<n>>]
BoolListVal(q) == [shape |-> "boollist", v |-> q]
\* []string(nil) held by an interface{}
NilStrsVal == [shape |-> "nilstrings", v |-> <<>>]

JString(s) == [j |-> "string", of |-> "", v |-> <<s>>]
JArray(of, q) == [j |-> "array", of |-> of, v |-> q]
JBool(b) == [j |-> "bool", of |-> "", v |-> b]
JNumber(n) == [j |-> "number", of |-> "", v |-> <<n>>]
JNull == [j |-> "null", of |-> "", v |-> <<>>]

\* json.Marshal of the Value field
MarshalValue(val) ==
    CASE val.shape = "string" -> JString(val.v[1])
      [] val.shape = "strings" -> JArray("string", val.v)
      [] val.shape = "list" -> JArray("string", val.v)
      [] val.shape = "boollist" -> JArray("bool", val.v)
      [] val.shape = "bool" -> JBool(val.v)
      [] val.shape \in {"int", "float64"} -> JNumber(val.v[1])
      [] OTHER -> JNull

\* The generic decoding into an interface{}
UnmarshalGeneric(j) ==
    CASE j.j = "string" -> StrVal(j.v[1])
      [] j.j = "array" -> IF j.of = "bool" THEN BoolListVal(j.v) ELSE ListVal(j.v)
      [] j.j = "bool" -> [shape |-> "bool", v |-> j.v]
      [] j.j = "number" -> FloatVal(j.v[1])
      [] OTHER -> NilVal

\* Decoding that tries the generic value first
UnmarshalValue_GenericFirst(j) == UnmarshalGeneric(j)

\* Condition.UnmarshalJSON on the raw value: a []string first, then a
\* string, then the generic decoding
UnmarshalValue(j) ==
    IF j.j = "null" THEN NilStrsVal
    ELSE IF j.j = "array" /\ (j.of = "string" \/ j.v = <<>>) THEN StrsVal(j.v)
    ELSE IF j.j = "string" THEN StrVal(j.v[1])
    ELSE UnmarshalGeneric(j)

MarshalCondition(c) ==
    [type |-> c.Type, operation |-> c.Operation, value |-> MarshalValue(c.Value),
     message |-> c.Message]

UnmarshalCondition(j) ==
    [Type |-> j.type, Operation |-> j.operation, Value |-> UnmarshalValue(j.value),
     Message |-> j.message]

\* A map member of a JSON object: null for a nil map
JMap(isNil, members) == [null |-> isNil, members |-> members]

MarshalRule(o) ==
    [id |-> o.rule.ID, type |-> o.rule.Type, severity |-> o.rule.Severity,
     resource |-> o.rule.Resource, action |-> o.rule.Action, effect |-> o.rule.Effect,
     conditions |-> JMap(o.nilConditions,
                         [k \in DOMAIN o.rule.Conditions |->
                             MarshalCondition(o.rule.Conditions[k])]),
     metadata |-> JMap(o.nilMetadata,
                       [k \in DOMAIN o.rule.Metadata |-> JString(o.rule.Metadata[k].v[1])])]

\* Rule.UnmarshalJSON: nil maps are replaced by empty ones
UnmarshalRule(j) ==
    [what |-> "rule",
     rule |-> [ID |-> j.id, Type |-> j.type, Severity |-> j.severity,
               Resource |-> j.resource, Action |-> j.action, Effect |-> j.effect,
               Conditions |-> [k \in DOMAIN j.conditions.members |->
                                  UnmarshalCondition(j.conditions.members[k])],
               Metadata |-> [k \in DOMAIN j.metadata.members |->
                                StrVal(j.metadata.members[k].v[1])]],
     condition |-> Condition("", "", NilVal),
     nilConditions |-> FALSE,
     nilMetadata |-> FALSE]

RuleObject(r, nilConditions, nilMetadata) ==
    [what |-> "rule", rule |-> r, condition |-> Condition("", "", NilVal),
     nilConditions |-> nilConditions, nilMetadata |-> nilMetadata]

ConditionObject(c) ==
    [what |-> "condition", rule |-> NewRule, condition |-> c,
     nilConditions |-> FALSE, nilMetadata |-> FALSE]

JsonValues ==
    { StrVal("admin"), StrVal(""), StrsVal(<<"admin", "editor">>), StrsVal(<<>>),
      BoolVal, [shape |-> "bool", v |-> <<"false">>], ListVal(<<"admin", "editor">>),
      ListVal(<<>>), BoolListVal(<<"true">>), IntVal("5"), FloatVal("5"), NilVal, NilStrsVal }

JsonConditions ==
    { [Condition(RoleCondition, op, val) EXCEPT !.Message = msg] :
        op \in {Equals, In}, val \in JsonValues, msg \in {"", "denied"} }

JsonRules ==
    { RuleObject([Base("docs", "read", eff) EXCEPT !.Conditions = cs, !.Metadata = md],
                 FALSE, FALSE) :
        eff \in {Allow, Deny},
        cs \in {EmptyMap} \cup {[k \in {"userRole"} |-> Condition(RoleCondition, In, val)] :
                                    val \in JsonValues},
        md \in {EmptyMap, [k \in {"team"} |-> StrVal("sec")]} }
    \cup
    { RuleObject(Base("docs", "read", Allow), nc, nm) : nc, nm \in BOOLEAN }

InitJSON ==
    /\ rules = <<>>
    /\ last = NoCall
    /\ mu = Unlocked
    /\ \E o \in JsonRules \cup {ConditionObject(c) : c \in JsonConditions} : objs = <<o>>
    /\ procs = <<>>
    /\ registry = <<>>

\* json.Marshal(objs[1])
Marshal ==
    /\ Len(objs) = 1
    /\ objs' = Append(objs, IF objs[1].what = "rule" THEN MarshalRule(objs[1])
                            ELSE MarshalCondition(objs[1].condition))
    /\ last' = [NoCall EXCEPT !.op = "Marshal"]
    /\ UNCHANGED <<rules, mu, procs, registry>>

\* json.Unmarshal into a fresh Rule or Condition
Unmarshal ==
    /\ Len(objs) = 2
    /\ objs' = Append(objs, IF objs[1].what = "rule" THEN UnmarshalRule(objs[2])
                            ELSE ConditionObject(UnmarshalCondition(objs[2])))
    /\ last' = [NoCall EXCEPT !.op = "Unmarshal"]
    /\ UNCHANGED <<rules, mu, procs, registry>>

NextJSON == Marshal \/ Unmarshal

SpecJSON == InitJSON /\ [][NextJSON]_vars

(***************************************************************************)
(* Callers that keep the *Rule they registered.  AddRule appends *rule: a  *)
(* copy of the struct.  The copy has its own scalar fields, and its         *)
(* Conditions and Metadata fields hold the same maps as the caller's       *)
(* object, so a builder that writes into a map of the object writes into   *)
(* the stored rules made from it.                                          *)
(***************************************************************************)
\* The stored rules after the maps of the caller's object obj became those
\* of the rule r
SharedMaps(rs, obj, r) ==
    [i \in 1..Len(rs) |->
        IF i \in obj.stored
        THEN [rs[i] EXCEPT !.Conditions = r.Conditions, !.Metadata = r.Metadata]
        ELSE rs[i]]

CallerContexts ==
    { <<WithUser(NewContext, [k \in {"roles"} |-> StrsVal(<<role>>)])>> :
        role \in {"admin", "user"} }

InitCaller ==
    /\ rules = <<>>
    /\ last = NoCall
    /\ mu = Unlocked
    /\ objs = << [rule |-> Base("docs", "read", Allow), stored |-> {}] >>
    /\ procs = <<>>
    /\ registry = <<>>

\* e.AddRule(p) for the caller's object p = objs[j]
AddRuleObj(j) ==
    \E o \in AddRuleOutcomes(rules, <<objs[j].rule>>) :
        /\ Len(o.rules) <= MaxRules
        /\ rules' = o.rules
        /\ objs' = [objs EXCEPT ![j].stored =
                        IF Len(o.rules) > Len(rules) THEN @ \cup {Len(o.rules)} ELSE @]
        /\ last' = [NoCall EXCEPT !.op = "AddRule", !.rule = <<objs[j].rule>>, !.ret = o.ret]
        /\ UNCHANGED <<mu, procs, registry>>

\* A builder that assigns a scalar field of the caller's object
ForResourceObj(j, resource) ==
    /\ objs' = [objs EXCEPT ![j].rule = ForResource(@, resource)]
    /\ last' = [NoCall EXCEPT !.op = "ForResource"]
    /\ UNCHANGED <<rules, mu, procs, registry>>

WithEffectObj(j, effect) ==
    /\ objs' = [objs EXCEPT ![j].rule = WithEffect(@, effect)]
    /\ last' = [NoCall EXCEPT !.op = "WithEffect"]
    /\ UNCHANGED <<rules, mu, procs, registry>>

\* A builder that writes into a map of the caller's object
WithConditionObj(j, key, value) ==
    /\ objs' = [objs EXCEPT ![j].rule = WithCondition(@, key, value)]
    /\ rules' = SharedMaps(rules, objs[j], objs'[j].rule)
    /\ last' = [NoCall EXCEPT !.op = "WithCondition"]
    /\ UNCHANGED <<mu, procs, registry>>

WithStructuredConditionObj(j, key, condition) ==
    /\ objs' = [objs EXCEPT ![j].rule = WithStructuredCondition(@, key, condition)]
    /\ rules' = SharedMaps(rules, objs[j], objs'[j].rule)
    /\ last' = [NoCall EXCEPT !.op = "WithStructuredCondition"]
    /\ UNCHANGED <<mu, procs, registry>>

WithMetadataObj(j, key, value) ==
    /\ objs' = [objs EXCEPT ![j].rule = WithMetadata(@, key, value)]
    /\ rules' = SharedMaps(rules, objs[j], objs'[j].rule)
    /\ last' = [NoCall EXCEPT !.op = "WithMetadata"]
    /\ UNCHANGED <<mu, procs, registry>>

BuilderOps ==
    {"ForResource", "WithEffect", "WithCondition", "WithStructuredCondition", "WithMetadata"}

NextCaller ==
    \/ \E j \in 1..Len(objs) : AddRuleObj(j)
    \/ \E j \in 1..Len(objs), resource \in {"docs", ""} : ForResourceObj(j, resource)
    \/ \E j \in 1..Len(objs), effect \in {Allow, Deny} : WithEffectObj(j, effect)
    \/ \E j \in 1..Len(objs), value \in {StrVal("admin"), NilVal} :
           WithConditionObj(j, "userRole", value)
    \/ \E j \in 1..Len(objs),
          condition \in {RoleAdmin, Condition(RoleCondition, "", StrVal("admin"))} :
           WithStructuredConditionObj(j, "userRole", condition)
    \/ \E j \in 1..Len(objs) : WithMetadataObj(j, "team", "sec")
    \/ \E ctxp \in CallerContexts : IsAllowed("docs", "read", ctxp)

SpecCaller == InitCaller /\ [][NextCaller]_vars

(***************************************************************************)
(* Goroutines calling one engine.  Every call is a sequence of steps; a    *)
(* step is what a goroutine does between two operations on e.mu or on      *)
(* e.rules.  sync.RWMutex: Lock first announces the writer, which stops    *)
(* new readers, and then waits for the readers that hold the lock to       *)
(* leave; RLock waits while a writer is announced or holds the lock.       *)
(***************************************************************************)
Goroutines == {"g1", "g2", "g3"}

\* A goroutine outside any call.  seen is the value of e.rules at the
\* instant the goroutine last acquired the lock (not a Go variable).
IdleProc ==
    [pc |-> "idle", op |-> "none", rule |-> <<>>, ctx |-> <<>>, matching |-> <<>>,
     ret |-> Ret(FALSE, NoError, 0, 0), seen |-> <<>>, kind |-> "", evaluator |-> ""]

\* RLock that lets a reader in while a writer waits for the readers to leave
RLockEnabled_Barging(m) == m.w # "held"

\* RLock that lets a reader in whatever a writer does
RLockEnabled_IgnoresWriter(m) == TRUE

\* e.mu.RLock() returns
RLockEnabled(m) == m.w = "free"

\* e.mu.Lock() announces the writer
LockAnnounceEnabled(m) == m.w = "free"

\* Lock that does not wait for the readers to leave
LockEnabled_IgnoresReaders(m) == m.w = "pending"

\* e.mu.Lock() returns
LockEnabled(m) == m.w = "pending" /\ m.r = 0

ConcurrentRules == {Base("docs", "read", Allow), Base("*", "*", Deny), Base("", "read", Allow)}
ConcurrentContexts == {<<>>, <<NewContext>>}

\* Calls of AddRule that have not returned
InFlight == {g \in DOMAIN procs : procs[g].op = "AddRule" /\ procs[g].pc # "done"}

InitConcurrent ==
    /\ rules = <<>>
    /\ last = NoCall
    /\ mu = Unlocked
    /\ objs = <<>>
    /\ procs = [g \in Goroutines |-> IdleProc]
    /\ registry = <<>>

CallAddRule(g, rulep) ==
    /\ procs[g].pc = "idle"
    /\ Len(rules) + Cardinality(InFlight) < MaxRules
    /\ procs' = [procs EXCEPT ![g] = [IdleProc EXCEPT !.pc = "validate", !.op = "AddRule",
                                                       !.rule = rulep]]
    /\ UNCHANGED <<rules, last, objs, mu, registry>>

\* if err := rule.validate(); err != nil { return err }
AddRuleValidate(g) ==
    /\ procs[g].pc = "validate"
    /\ \E order \in Perms(DOMAIN procs[g].rule[1].Conditions) :
          LET err == validate(procs[g].rule[1], order)
          IN  procs' = [procs EXCEPT ![g].pc = IF err # NoError THEN "done" ELSE "lock",
                                     ![g].ret = Ret(FALSE, err, 0, 0)]
    /\ UNCHANGED <<rules, last, objs, mu, registry>>

\* e.mu.Lock(), first half
LockAnnounce(g) ==
    /\ procs[g].pc = "lock"
    /\ LockAnnounceEnabled(mu)
    /\ mu' = [mu EXCEPT !.w = "pending"]
    /\ procs' = [procs EXCEPT ![g].pc = "locking"]
    /\ UNCHANGED <<rules, last, objs, registry>>

\* e.mu.Lock(), second half
Lock(g) ==
    /\ procs[g].pc = "locking"
    /\ LockEnabled(mu)
    /\ mu' = [mu EXCEPT !.w = "held"]
    /\ procs' = [procs EXCEPT ![g].pc = "append", ![g].seen = rules]
    /\ UNCHANGED <<rules, last, objs, registry>>

\* e.rules = append(e.rules, *rule)
AppendRule(g) ==
    /\ procs[g].pc = "append"
    /\ rules' = Append(rules, procs[g].rule[1])
    /\ procs' = [procs EXCEPT ![g].pc = "unlock"]
    /\ UNCHANGED <<last, objs, mu, registry>>

\* defer e.mu.Unlock(); return nil
Unlock(g) ==
    /\ procs[g].pc = "unlock"
    /\ mu' = [mu EXCEPT !.w = "free"]
    /\ procs' = [procs EXCEPT ![g].pc = "done"]
    /\ UNCHANGED <<rules, last, objs, registry>>

CallIsAllowed(g, ctxp) ==
    /\ procs[g].pc = "idle"
    /\ procs' = [procs EXCEPT ![g] = [IdleProc EXCEPT !.pc = "check", !.op = "IsAllowed",
                                                       !.ctx = ctxp]]
    /\ UNCHANGED <<rules, last, objs, mu, registry>>

\* if ctx == nil { return false, &ErrInvalidContext{...} }
CheckContext(g) ==
    /\ procs[g].pc = "check"
    /\ procs' = IF procs[g].ctx = <<>>
                THEN [procs EXCEPT ![g].pc = "done",
                        ![g].ret = Ret(FALSE, ErrInvalidContext(<<"context is required">>), 0, 0)]
                ELSE [procs EXCEPT ![g].pc = "rlock"]
    /\ UNCHANGED <<rules, last, objs, mu, registry>>

\* e.mu.RLock()
RLock(g) ==
    /\ procs[g].pc = "rlock"
    /\ RLockEnabled(mu)
    /\ mu' = [mu EXCEPT !.r = @ + 1]
    /\ procs' = [procs EXCEPT ![g].pc = "find", ![g].seen = rules]
    /\ UNCHANGED <<rules, last, objs, registry>>

\* matchingRules := e.findMatchingRules(resource, action)
\* if len(matchingRules) == 0 { return false, nil }
FindMatching(g) ==
    /\ procs[g].pc = "find"
    /\ LET matchingRules == findMatchingRules(rules, "docs", "read")
       IN  procs' = [procs EXCEPT ![g].pc = IF Len(matchingRules) = 0 THEN "runlock" ELSE "eval",
                                  ![g].matching = matchingRules,
                                  ![g].ret = Ret(FALSE, NoError, Len(rules), 0)]
    /\ UNCHANGED <<rules, last, objs, mu, registry>>

\* One turn of the loop over matchingRules
EvaluateNext(g) ==
    /\ procs[g].pc = "eval"
    /\ LET p == procs[g]
           n == p.ret.evaluated + 1
       IN  \E order \in Perms(DOMAIN Head(p.matching).Conditions) :
             LET o == evaluateRule(Head(p.matching), p.ctx[1], order)
             IN  procs' =
                   IF o.kind = "panic"
                   THEN [procs EXCEPT ![g].pc = "runlock", ![g].ret = Panic(p.ret.examined, n)]
                   ELSE IF o.err # NoError
                   THEN [procs EXCEPT ![g].pc = "runlock",
                                      ![g].ret = Ret(FALSE, o.err, p.ret.examined, n)]
                   ELSE IF ~o.allowed
                   THEN [procs EXCEPT ![g].pc = "runlock",
                                      ![g].ret = Ret(FALSE, NoError, p.ret.examined, n)]
                   ELSE IF Len(p.matching) = 1
                   THEN [procs EXCEPT ![g].pc = "runlock",
                                      ![g].ret = Ret(TRUE, NoError, p.ret.examined, n)]
                   ELSE [procs EXCEPT ![g].matching = Tail(@),
                                      ![g].ret = Ret(FALSE, NoError, p.ret.examined, n)]
    /\ UNCHANGED <<rules, last, objs, mu, registry>>

\* defer e.mu.RUnlock()
RUnlock(g) ==
    /\ procs[g].pc = "runlock"
    /\ mu' = [mu EXCEPT !.r = @ - 1]
    /\ procs' = [procs EXCEPT ![g].pc = "done"]
    /\ UNCHANGED <<rules, last, objs, registry>>

\* The caller has the result and may call again
Return(g) ==
    /\ procs[g].pc = "done"
    /\ procs' = [procs EXCEPT ![g] = IdleProc]
    /\ UNCHANGED <<rules, last, objs, mu, registry>>

NextConcurrent ==
    \E g \in Goroutines :
        \/ \E r \in ConcurrentRules : CallAddRule(g, <<r>>)
        \/ AddRuleValidate(g)
        \/ LockAnnounce(g)
        \/ Lock(g)
        \/ AppendRule(g)
        \/ Unlock(g)
        \/ \E ctxp \in ConcurrentContexts : CallIsAllowed(g, ctxp)
        \/ CheckContext(g)
        \/ RLock(g)
        \/ FindMatching(g)
        \/ EvaluateNext(g)
        \/ RUnlock(g)
        \/ Return(g)

SpecConcurrent == InitConcurrent /\ [][NextConcurrent]_vars

\* The steps of a goroutine inside a call.  The scheduler runs every
\* goroutine that can run; whether and when a caller makes a call is free.
Progress(g) ==
    \/ AddRuleValidate(g)
    \/ LockAnnounce(g)
    \/ Lock(g)
    \/ AppendRule(g)
    \/ Unlock(g)
    \/ CheckContext(g)
    \/ RLock(g)
    \/ FindMatching(g)
    \/ EvaluateNext(g)
    \/ RUnlock(g)

\* Two goroutines, with a rule whose role condition panics on a context
\* that has roles
FairGoroutines == {"g1", "g2"}
FairRules ==
    ConcurrentRules \cup
    { WithStructuredCondition(Base("docs", "read", Allow), "userRole", RoleAdminOrEditor) }
FairContexts ==
    ConcurrentContexts \cup
    { <<WithUser(NewContext, [k \in {"roles"} |-> StrsVal(<<"admin">>)])>> }

InitFair ==
    /\ rules = <<>>
    /\ last = NoCall
    /\ mu = Unlocked
    /\ objs = <<>>
    /\ procs = [g \in FairGoroutines |-> IdleProc]
    /\ registry = <<>>

NextFair ==
    \E g \in FairGoroutines :
        \/ \E r \in FairRules : CallAddRule(g, <<r>>)
        \/ \E ctxp \in FairContexts : CallIsAllowed(g, ctxp)
        \/ Progress(g)
        \/ Return(g)

FairConcurrent ==
    InitFair /\ [][NextFair]_vars /\ \A g \in FairGoroutines : WF_vars(Progress(g))

(***************************************************************************)
(* The evaluator registry (specification 4.2, 5; its code is not in the    *)
(* sources).  The registry maps a condition kind to an evaluator; an       *)
(* engine starts with the built-in evaluators.  Register replaces the      *)
(* entry of a kind under the engine's lock, a decision looks the           *)
(* evaluator up under the read lock.  The write of an entry takes two      *)
(* steps, between which the entry is unusable.  registry.log is the        *)
(* history of the completed registrations.                                 *)
(***************************************************************************)
MaxRegistrations == 2

NoEvaluator == "none"
TornEntry == "torn"

BuiltinEvaluators ==
    [k \in {BasicCondition, RoleCondition, CustomCondition} |->
        CASE k = BasicCondition -> "basic"
          [] k = RoleCondition -> "role"
          [] OTHER -> "resourceOwner"]

RegisteredKinds == {CustomCondition, RoleCondition}
LookedUpKinds == {CustomCondition, RoleCondition, "regex"}
Evaluators == {"time", "audit"}

\* Register that keeps the entry a kind already has
RegistryPut_KeepFirst(table, kind, evaluator) ==
    IF kind \in DOMAIN table THEN table ELSE MapPut(table, kind, evaluator)

\* Register(kind, evaluator): last write wins
RegistryPut(table, kind, evaluator) == MapPut(table, kind, evaluator)

\* Lookup(kind)
Lookup(table, kind) == IF kind \in DOMAIN table THEN table[kind] ELSE NoEvaluator

InitRegistry ==
    /\ rules = <<>>
    /\ last = NoCall
    /\ mu = Unlocked
    /\ objs = <<>>
    /\ procs = [g \in Goroutines |-> IdleProc]
    /\ registry = [table |-> BuiltinEvaluators, log |-> <<>>]

Registering == {g \in Goroutines : procs[g].op = "Register" /\ procs[g].pc # "done"}

CallRegister(g, kind, evaluator) ==
    /\ procs[g].pc = "idle"
    /\ Len(registry.log) + Cardinality(Registering) < MaxRegistrations
    /\ procs' = [procs EXCEPT ![g] = [IdleProc EXCEPT !.pc = "reg_lock", !.op = "Register",
                                                       !.kind = kind, !.evaluator = evaluator]]
    /\ UNCHANGED <<rules, last, objs, mu, registry>>

RegisterLockAnnounce(g) ==
    /\ procs[g].pc = "reg_lock"
    /\ LockAnnounceEnabled(mu)
    /\ mu' = [mu EXCEPT !.w = "pending"]
    /\ procs' = [procs EXCEPT ![g].pc = "reg_locking"]
    /\ UNCHANGED <<rules, last, objs, registry>>

RegisterLock(g) ==
    /\ procs[g].pc = "reg_locking"
    /\ LockEnabled(mu)
    /\ mu' = [mu EXCEPT !.w = "held"]
    /\ procs' = [procs EXCEPT ![g].pc = "reg_write"]
    /\ UNCHANGED <<rules, last, objs, registry>>

\* The write of the entry begins: the writer reads the table
RegisterWrite(g) ==
    /\ procs[g].pc = "reg_write"
    /\ registry' = [registry EXCEPT !.table = MapPut(@, procs[g].kind, TornEntry)]
    /\ procs' = [procs EXCEPT ![g].pc = "reg_store", ![g].seen = registry.table]
    /\ UNCHANGED <<rules, last, objs, mu>>

\* The write of the entry ends
RegisterStore(g) ==
    /\ procs[g].pc = "reg_store"
    /\ registry' = [table |-> RegistryPut(procs[g].seen, procs[g].kind, procs[g].evaluator),
                    log |-> Append(registry.log, [kind |-> procs[g].kind,
                                                  evaluator |-> procs[g].evaluator])]
    /\ procs' = [procs EXCEPT ![g].pc = "reg_unlock"]
    /\ UNCHANGED <<rules, last, objs, mu>>

RegisterUnlock(g) ==
    /\ procs[g].pc = "reg_unlock"
    /\ mu' = [mu EXCEPT !.w = "free"]
    /\ procs' = [procs EXCEPT ![g].pc = "done"]
    /\ UNCHANGED <<rules, last, objs, registry>>

\* A decision on a rule with one condition of the kind
CallDecide(g, kind) ==
    /\ procs[g].pc = "idle"
    /\ procs' = [procs EXCEPT ![g] = [IdleProc EXCEPT !.pc = "dec_rlock", !.op = "Decide",
                                                       !.kind = kind]]
    /\ UNCHANGED <<rules, last, objs, mu, registry>>

DecideRLock(g) ==
    /\ procs[g].pc = "dec_rlock"
    /\ RLockEnabled(mu)
    /\ mu' = [mu EXCEPT !.r = @ + 1]
    /\ procs' = [procs EXCEPT ![g].pc = "dec_lookup", ![g].seen = registry.log]
    /\ UNCHANGED <<rules, last, objs, registry>>

DecideLookup(g) ==
    /\ procs[g].pc = "dec_lookup"
    /\ procs' = [procs EXCEPT ![g].pc = "dec_runlock",
                               ![g].evaluator = Lookup(registry.table, procs[g].kind)]
    /\ UNCHANGED <<rules, last, objs, mu, registry>>

DecideRUnlock(g) ==
    /\ procs[g].pc = "dec_runlock"
    /\ mu' = [mu EXCEPT !.r = @ - 1]
    /\ procs' = [procs EXCEPT ![g].pc = "done"]
    /\ UNCHANGED <<rules, last, objs, registry>>

NextRegistry ==
    \E g \in Goroutines :
        \/ \E kind \in RegisteredKinds, evaluator \in Evaluators : CallRegister(g, kind, evaluator)
        \/ RegisterLockAnnounce(g)
        \/ RegisterLock(g)
        \/ RegisterWrite(g)
        \/ RegisterStore(g)
        \/ RegisterUnlock(g)
        \/ \E kind \in LookedUpKinds : CallDecide(g, kind)
        \/ DecideRLock(g)
        \/ DecideLookup(g)
        \/ DecideRUnlock(g)
        \/ Return(g)

SpecRegistry == InitRegistry /\ [][NextRegistry]_vars

(***************************************************************************)
(* Vocabulary of the properties.  These say what the specification means   *)
(* by a match, by a condition the engine can judge and by a condition that *)
(* holds; they do not use the engine's operators.                          *)
(***************************************************************************)
FieldMatches(pattern, value) == pattern = Wildcard \/ pattern = value

\* Indices of the stored rules that match the last call's (resource, action)
Matching ==
    {i \in 1..Len(rules) : /\ FieldMatches(rules[i].Resource, last.resource)
                           /\ FieldMatches(rules[i].Action, last.action)}

\* The last call was IsAllowed with a non-nil context
Decision == last.op = "IsAllowed" /\ last.ctx # <<>>

JudgedKeys == {"userRole", "resourceOwner"}

\* Every condition of r is one the engine judges, with an expected value of
\* the shape its check reads
WellFormed(r) ==
    \A k \in DOMAIN r.Conditions :
        /\ k \in JudgedKeys
        /\ k = "userRole" => r.Conditions[k].Value.shape = "string"

\* The roles of the user, from `roles` (a []string) and `role` (a string)
ContextRoles(ctx) ==
    (IF "roles" \in DOMAIN ctx.user /\ ctx.user["roles"].shape = "strings"
     THEN {ctx.user["roles"].v[i] : i \in 1..Len(ctx.user["roles"].v)} ELSE {})
    \cup
    (IF "role" \in DOMAIN ctx.user /\ ctx.user["role"].shape = "string"
     THEN {ctx.user["role"].v[1]} ELSE {})

RecognisedRoleAttribute(ctx) ==
    \/ "roles" \in DOMAIN ctx.user /\ ctx.user["roles"].shape = "strings"
    \/ "role" \in DOMAIN ctx.user /\ ctx.user["role"].shape = "string"

ConditionHolds(k, c, ctx) ==
    IF k = "userRole" THEN c.Value.v[1] \in ContextRoles(ctx)
    ELSE /\ {"id"} \subseteq DOMAIN ctx.user
         /\ {"owner"} \subseteq DOMAIN ctx.resource
         /\ ctx.user["id"] = ctx.resource["owner"]

Satisfied(r, ctx) == \A k \in DOMAIN r.Conditions : ConditionHolds(k, r.Conditions[k], ctx)

\* The registration invariant of a rule
ConditionValid(c) == c.Type # "" /\ c.Operation # "" /\ c.Value.shape # "nil"

RuleValid(r) ==
    /\ r.Resource # ""
    /\ r.Action # ""
    /\ r.Effect \in {Allow, Deny}
    /\ r.Type # ""
    /\ \A k \in DOMAIN r.Conditions : ConditionValid(r.Conditions[k])

DeniedWithoutError ==
    last.ret.kind = "return" /\ last.ret.allowed = FALSE /\ last.ret.err = NoError

(***************************************************************************)
(* Properties                                                              *)
(***************************************************************************)
\* C1 - Default deny: a decision with a non-nil context for which no stored
\* rule matches (resource, action) returns (false, nil), whatever the rules
\* and the context are.
C1_DefaultDeny == (Decision /\ Matching = {}) => DeniedWithoutError

\* The rule set is not empty, none of its rules matches, and access is denied
C1_Witness == Decision /\ Len(rules) > 0 /\ Matching = {} /\ DeniedWithoutError

\* C2 - Conjunctive aggregation: when every matching rule carries only
\* conditions the engine can judge (so that no evaluation error can arise),
\* the decision returns without error, and it allows if and only if at least
\* one rule matches and every matching rule has all its conditions satisfied
\* and effect allow.
C2_Conjunctive ==
    (Decision /\ \A i \in Matching : WellFormed(rules[i]))
        => /\ last.ret.kind = "return"
           /\ last.ret.err = NoError
           /\ last.ret.allowed <=>
                  /\ Matching # {}
                  /\ \A i \in Matching : /\ Satisfied(rules[i], last.ctx[1])
                                         /\ rules[i].Effect = Allow

\* An allow rule added first and a deny rule added second both match with
\* their conditions satisfied, and the decision is a denial
C2_Witness ==
    /\ Decision
    /\ Len(rules) = 2
    /\ Matching = {1, 2}
    /\ \A i \in Matching : WellFormed(rules[i]) /\ Satisfied(rules[i], last.ctx[1])
    /\ rules[1].Effect = Allow
    /\ rules[2].Effect = Deny
    /\ DeniedWithoutError

\* C3 - Fail-closed on missing evaluator: when a matching rule carries a
\* condition the engine has no evaluator for, the decision returns a non-nil
\* error and allowed = false.
C3_MissingEvaluatorFails ==
    (Decision /\ \E i \in Matching : ~(DOMAIN rules[i].Conditions \subseteq JudgedKeys))
        => /\ last.ret.kind = "return"
           /\ last.ret.err # NoError
           /\ last.ret.allowed = FALSE

C5_NoPermissiveFailure ==
    (last.op = "IsAllowed" /\ last.ret.kind = "return")
        => /\ ~(last.ret.allowed /\ last.ret.err # NoError)
           /\ (last.ctx # <<>> /\ \E i \in Matching : ~WellFormed(rules[i]))
                  => ~(last.ret.allowed /\ last.ret.err = NoError)

\* C6 - Nil context: IsAllowed with a nil context returns allowed = false and
\* an InvalidContext error of code INVALID_CONTEXT, having matched no rule and
\* evaluated none, and leaves the rule collection as it was.
C6_NilContext ==
    [][(last'.op = "IsAllowed" /\ last'.ctx = <<>>)
          => /\ last'.ret.kind = "return"
             /\ last'.ret.allowed = FALSE
             /\ last'.ret.err.type = "ErrInvalidContext"
             /\ Code(last'.ret.err) = "INVALID_CONTEXT"
             /\ last'.ret.examined = 0
             /\ last'.ret.evaluated = 0
             /\ rules' = rules]_vars

\* A nil-context call on an engine holding a rule that matches the request
C6_Witness ==
    /\ last.op = "IsAllowed"
    /\ last.ctx = <<>>
    /\ Matching # {}
    /\ Code(last.ret.err) = "INVALID_CONTEXT"

\* C7 - Rule matching: matches is true if and only if the rule's resource is
\* the requested one or the wildcard and the rule's action is the requested
\* one or the wildcard, whatever the rule's effect and conditions are.
C7_Matches ==
    last.op = "matches"
        => last.ret.allowed <=>
               /\ FieldMatches(last.rule[1].Resource, last.resource)
               /\ FieldMatches(last.rule[1].Action, last.action)

\* A rule with a wildcard action and a concrete resource matched a request
\* for another action
C7_Witness ==
    /\ last.op = "matches"
    /\ last.rule[1].Action = Wildcard
    /\ last.rule[1].Resource = last.resource
    /\ last.action = "write"
    /\ last.ret.allowed

\* C8 - Registration atomicity: AddRule with an invalid rule returns an
\* InvalidRule error of code INVALID_RULE and leaves the rule collection
\* exactly as it was.
C8_RegistrationAtomic ==
    [][(last'.op = "AddRule" /\ last'.rule # <<>> /\ ~RuleValid(last'.rule[1]))
          => /\ last'.ret.kind = "return"
             /\ last'.ret.err.type = "ErrInvalidRule"
             /\ Code(last'.ret.err) = "INVALID_RULE"
             /\ rules' = rules]_vars

\* An invalid rule was rejected by an engine that already holds a rule
C8_Witness ==
    /\ last.op = "AddRule"
    /\ last.rule # <<>>
    /\ ~RuleValid(last.rule[1])
    /\ Len(rules) > 0
    /\ Code(last.ret.err) = "INVALID_RULE"

C10_NilRuleRejected ==
    (last.op = "AddRule" /\ last.rule = <<>>)
        => /\ last.ret.kind = "return"
           /\ last.ret.err # NoError
           /\ Code(last.ret.err) = "INVALID_RULE"

\* C11 (Defensive copy): a builder call on the caller's rule object after
\* AddRule returned leaves every stored rule as it was.
C11_DefensiveCopy == [][last'.op \in BuilderOps => rules' = rules]_vars

\* Goroutines that hold e.mu for reading, and for writing
Readers == {g \in DOMAIN procs : procs[g].pc \in {"find", "eval", "runlock"}}
Writers == {g \in DOMAIN procs : procs[g].pc \in {"append", "unlock"}}

\* C12 (Reader/writer discipline): no goroutine is between the acquisition of
\* the write lock and its release while a decision is between matching and
\* aggregation, at most one goroutine appends at a time, and every decision
\* that has its result has the result of a sequential IsAllowed on the rules
\* the engine held when the decision took the lock.
C12_ReaderWriter ==
    /\ Readers = {} \/ Writers = {}
    /\ Cardinality(Writers) <= 1
    /\ \A g \in DOMAIN procs :
         procs[g].op = "IsAllowed" /\ procs[g].pc \in {"runlock", "done"}
            => procs[g].ret \in IsAllowedOutcomes(procs[g].seen, "docs", "read", procs[g].ctx)

\* A decision returned true on the rules it saw while another goroutine,
\* which had to wait for it, has since appended a rule that denies
C12_Witness ==
    \E g, h \in DOMAIN procs :
        /\ procs[g].op = "IsAllowed" /\ procs[g].pc = "done" /\ procs[g].ret.allowed
        /\ procs[h].op = "AddRule" /\ procs[h].pc = "done"
        /\ procs[h].seen = procs[g].seen
        /\ Len(rules) > Len(procs[g].seen)
        /\ rules[Len(rules)].Effect = Deny

\* The evaluator of the last registration for the kind in the log, or the
\* built-in evaluator of the kind, or none
RECURSIVE MostRecent(_, _)
MostRecent(log, kind) ==
    IF log = <<>> THEN (IF kind \in DOMAIN BuiltinEvaluators THEN BuiltinEvaluators[kind]
                        ELSE NoEvaluator)
    ELSE IF log[Len(log)].kind = kind THEN log[Len(log)].evaluator
    ELSE MostRecent(SubSeq(log, 1, Len(log) - 1), kind)

\* Decisions that have looked their evaluator up
Decided == {g \in DOMAIN procs : procs[g].op = "Decide" /\ procs[g].pc \in {"dec_runlock", "done"}}

ExpectedRoles(c) == {c.Value.v[i] : i \in 1..Len(c.Value.v)}

\* C15 (Role condition): a decision on one allow rule whose only condition is
\* a role condition (expected value: a role or a sequence of roles), with a
\* context that carries roles, returns without error, and allows iff a role
\* of the context is among the expected roles.
C15_RoleCondition ==
    (/\ Decision
     /\ Len(rules) = 1 /\ DOMAIN rules[1].Conditions = {"userRole"}
     /\ RecognisedRoleAttribute(last.ctx[1]))
    => /\ last.ret.kind = "return"
       /\ last.ret.err = NoError
       /\ last.ret.allowed <=>
             (ExpectedRoles(rules[1].Conditions["userRole"]) \cap ContextRoles(last.ctx[1]) # {})

\* The user is the owner of the resource: both identifiers are there and equal
Owns(ctx) ==
    /\ "id" \in DOMAIN ctx.user
    /\ "owner" \in DOMAIN ctx.resource
    /\ ctx.user["id"] = ctx.resource["owner"]

\* C16 (Resource-ownership condition): a decision on one allow rule whose
\* only condition is the ownership check (under the key resourceOwner, or a
\* custom-kind condition on an engine without other evaluators) returns
\* without error and without panic, and allows iff the user's id and the
\* resource's owner are both present and equal.
C16_ResourceOwner ==
    (/\ Decision
     /\ Len(rules) = 1
     /\ \E k \in {"resourceOwner", "ownership"} : DOMAIN rules[1].Conditions = {k})
    => /\ last.ret.kind = "return"
       /\ last.ret.err = NoError
       /\ last.ret.allowed <=> Owns(last.ctx[1])

\* C17 (No panic on malformed input): a decision returns; it does not end in
\* a run-time panic.
C17_NoPanic == last.op = "IsAllowed" => last.ret.kind = "return"

\* The condition values of the object that was serialized
RoundTripValues ==
    IF objs[1].what = "rule"
    THEN {objs[1].rule.Conditions[k].Value : k \in DOMAIN objs[1].rule.Conditions}
    ELSE {objs[1].condition.Value}

\* C18 (JSON round-trip), as claimed: any Rule, and any Condition whose value
\* is a string, a sequence of strings or a generic value, is equal to what
\* its serialization deserializes to.
C18_RoundTripAny ==
    (Len(objs) = 3 /\ \A val \in RoundTripValues : val.shape # "nil") => objs[3] = objs[1]

\* C18 (JSON round-trip), amended: a Rule with non-nil maps, and a
\* Condition, is equal to what its serialization deserializes to when every
\* condition value is a string, a sequence of strings, a boolean or a
\* float64; and a JSON array of strings always comes back as a sequence of
\* strings.
C18_RoundTrip ==
    Len(objs) = 3 =>
        /\ (/\ ~objs[1].nilConditions /\ ~objs[1].nilMetadata
            /\ \A val \in RoundTripValues :
                  val.shape \in {"string", "strings", "bool", "float64"})
           => objs[3] = objs[1]
        /\ \A val \in IF objs[3].what = "rule"
                       THEN {objs[3].rule.Conditions[k].Value : k \in DOMAIN objs[3].rule.Conditions}
                       ELSE {objs[3].condition.Value} :
               val.shape # "list"

\* A rule with a condition on a sequence of strings and with metadata came
\* back equal
C18_Witness ==
    /\ Len(objs) = 3
    /\ objs[1].what = "rule"
    /\ \E k \in DOMAIN objs[1].rule.Conditions :
          objs[1].rule.Conditions[k].Value = StrsVal(<<"admin", "editor">>)
    /\ DOMAIN objs[1].rule.Metadata # {}
    /\ objs[3] = objs[1]

\* The first stored rule, in insertion order, that matches the last call
FirstMatching == CHOOSE i \in Matching : \A j \in Matching : i <= j

\* The first matching rule has only conditions the engine judges, and one of
\* them does not hold
FirstMatchingUnmet ==
    /\ Decision
    /\ Matching # {}
    /\ WellFormed(rules[FirstMatching])
    /\ ~Satisfied(rules[FirstMatching], last.ctx[1])

\* C19 (Continue past an unmet rule), as claimed: a decision whose first
\* matching rule is unmet evaluates every matching rule, unless a rule fails.
C19_ContinuePastUnmet ==
    FirstMatchingUnmet =>
        \/ last.ret.evaluated = Cardinality(Matching)
        \/ last.ret.kind = "panic"
        \/ last.ret.err # NoError

\* C19 (Continue past an unmet rule), amended: a decision whose first
\* matching rule is unmet ends at that rule with (false, nil); the matching
\* rules after it are not evaluated.
C19_StopAtUnmet ==
    FirstMatchingUnmet => DeniedWithoutError /\ last.ret.evaluated = 1

\* The first of two matching rules was unmet and the second one, whose role
\* condition expects a sequence, would have failed on this context
C19_Witness ==
    /\ FirstMatchingUnmet
    /\ Matching = {1, 2}
    /\ ~WellFormed(rules[2])
    /\ "userRole" \in DOMAIN rules[2].Conditions
    /\ RecognisedRoleAttribute(last.ctx[1])
    /\ DeniedWithoutError
    /\ last.ret.evaluated = 1

\* C20 (Stored rules stay valid): every rule the engine holds satisfies the
\* registration invariant, whatever AddRule, builder and IsAllowed calls
\* were made.
C20_StoredRulesValid == \A i \in 1..Len(rules) : RuleValid(rules[i])

\* C21 (Append-only, insertion-ordered store): a step never removes,
\* reorders or rewrites a stored rule, and a successful AddRule adds exactly
\* its rule, after all the others.
C21_AppendOnly ==
    [][/\ Len(rules') >= Len(rules)
       /\ SubSeq(rules', 1, Len(rules)) = rules
       /\ Len(rules') <= Len(rules) + 1
       /\ Len(rules') = Len(rules) + 1 =>
             /\ last'.op = "AddRule" /\ last'.ret.kind = "return" /\ last'.ret.err = NoError
             /\ rules'[Len(rules')] = last'.rule[1]
       /\ (last'.op = "AddRule" /\ last'.ret.kind = "return" /\ last'.ret.err = NoError)
             => Len(rules') = Len(rules) + 1]_vars

\* The lock is held by the goroutines inside a locked section and by no
\* other: a call that has returned holds nothing
LockAccounting ==
    /\ mu.r = Cardinality(Readers)
    /\ mu.w = "held" <=> Writers # {}
    /\ mu.w = "pending" <=> \E g \in DOMAIN procs : procs[g].pc = "locking"

C23_OrderIndependent ==
    Decision =>
        \A o \in IsAllowedOutcomes(rules, last.resource, last.action, last.ctx) :
            /\ o.kind = last.ret.kind
            /\ o.allowed = last.ret.allowed
            /\ (o.err = NoError) <=> (last.ret.err = NoError)

\* C24 (Missing role attribute is a plain denial): a decision on a single
\* matching allow rule that carries a userRole condition, with a user map
\* that has neither `roles` nor `role`, returns (false, nil).
C24_MissingRolePlainDenial ==
    (/\ Decision
     /\ Len(rules) = 1 /\ rules[1].Effect = Allow /\ Matching = {1}
     /\ "userRole" \in DOMAIN rules[1].Conditions
     /\ DOMAIN last.ctx[1].user \cap {"roles", "role"} = {})
    => DeniedWithoutError

\* Such a decision was made for a rule that expects a sequence of roles, by
\* a user who has an id and no role
C24_Witness ==
    /\ Decision
    /\ Len(rules) = 1 /\ rules[1].Effect = Allow /\ Matching = {1}
    /\ "userRole" \in DOMAIN rules[1].Conditions
    /\ rules[1].Conditions["userRole"].Value = StrsVal(<<"admin", "superuser">>)
    /\ DOMAIN last.ctx[1].user = {"id"}
    /\ DeniedWithoutError

\* C25 (Context setters): after any sequence of setter calls on a Context,
\* User, Resource and Environment return the maps last given for their
\* parts (the maps of NewContext before that, nil when nil was given), the
\* last setter returned the instance it was called on, and there is still
\* one instance.
C25_ContextSetters ==
    /\ Len(objs.heap) = 1
    /\ objs.call.returned = 1
    /\ User(objs.heap[1]) = objs.set.user
    /\ Resource(objs.heap[1]) = objs.set.resource
    /\ Environment(objs.heap[1]) = objs.set.environment

\* The user map was set to nil after the two other parts had been given
\* maps with entries
C25_Witness ==
    /\ objs.call.op = "WithUser" /\ objs.call.given = NilMap
    /\ User(objs.heap[1]).nil
    /\ Resource(objs.heap[1]).m # EmptyMap
    /\ Environment(objs.heap[1]).m # EmptyMap

\* C26 (A matching deny rule always denies): a decision for which a stored
\* rule with effect deny matches does not return true, whether or not the
\* conditions of that rule hold.
C26_DenyRuleDenies ==
    (Decision /\ \E i \in Matching : rules[i].Effect = Deny)
    => ~(last.ret.kind = "return" /\ last.ret.allowed)

\* An allow rule without conditions and a deny rule whose condition does
\* not hold both match, both were evaluated, and the decision is a denial
C26_Witness ==
    /\ Decision
    /\ Matching = {1, 2}
    /\ rules[1].Effect = Allow /\ DOMAIN rules[1].Conditions = {}
    /\ rules[2].Effect = Deny /\ WellFormed(rules[2]) /\ ~Satisfied(rules[2], last.ctx[1])
    /\ DeniedWithoutError
    /\ last.ret.evaluated = 2

\* C27 (Denial is permanent once a rule matches): once a call did not
\* return true although a rule matched, no later call with the same
\* arguments returns true, whatever rules were added since.
C27_DenialPermanent ==
    (objs.deniedAt > 0 /\ last.op = "IsAllowed")
    => ~(last.ret.kind = "return" /\ last.ret.allowed)

\* The request was denied by the first rule, a rule that allows it without
\* conditions was added, and the request is denied again
C27_Witness ==
    /\ objs.deniedAt = 1
    /\ Len(rules) = 2
    /\ rules[2].Effect = Allow /\ DOMAIN rules[2].Conditions = {}
    /\ Matching = {1, 2}
    /\ last.op = "IsAllowed"
    /\ DeniedWithoutError

\* The request found no matching rule at first and is allowed now
C27_WitnessDefault ==
    /\ objs.defaulted
    /\ last.op = "IsAllowed"
    /\ last.ret.kind = "return" /\ last.ret.allowed

(***************************************************************************)
(* A caller that builds one rule with WithStructuredCondition, registers   *)
(* it and asks for decisions.  objs[1] is the caller's object: rule and    *)
(* stored as for AddRuleObj, and of the latest builder call its receiver   *)
(* (before), its arguments (key, condition) and the number of calls.       *)
(***************************************************************************)
MaxBuilds == 2

BuilderRules ==
    { Base("docs", "read", Allow),
      Base("docs", "read", Deny),
      WithCondition(Base("docs", "read", Allow), "userRole", StrVal("admin")) }

BuilderConditions ==
    { RoleAdmin,
      Condition(RoleCondition, In, StrsVal(<<"user">>)),
      Condition("", Equals, StrVal("admin")),
      Condition(RoleCondition, "", StrVal("admin")),
      Condition(RoleCondition, Equals, NilVal),
      Condition("", "", NilVal) }

InitBuilder ==
    /\ rules = <<>>
    /\ last = NoCall
    /\ mu = Unlocked
    /\ \E r \in BuilderRules :
          objs = << [rule |-> r, stored |-> {}, before |-> r, key |-> "",
                     condition |-> RoleAdmin, calls |-> 0] >>
    /\ procs = <<>>
    /\ registry = <<>>

\* p.WithStructuredCondition(key, condition) for the caller's object p
CallWithStructuredCondition(key, condition) ==
    /\ objs[1].calls < MaxBuilds
    /\ objs' = [objs EXCEPT ![1].rule = WithStructuredCondition(@, key, condition),
                            ![1].before = objs[1].rule,
                            ![1].key = key,
                            ![1].condition = condition,
                            ![1].calls = @ + 1]
    /\ rules' = SharedMaps(rules, objs[1], objs'[1].rule)
    /\ last' = [NoCall EXCEPT !.op = "WithStructuredCondition"]
    /\ UNCHANGED <<mu, procs, registry>>

NextBuilder ==
    \/ \E key \in {"userRole", "resourceOwner"}, condition \in BuilderConditions :
           CallWithStructuredCondition(key, condition)
    \/ AddRuleObj(1)
    \/ \E ctxp \in CallerContexts : IsAllowed("docs", "read", ctxp)

SpecBuilder == InitBuilder /\ [][NextBuilder]_vars

\* C28 (Builder drops invalid conditions silently): WithStructuredCondition
\* stores the condition under the key exactly when it is valid and leaves
\* the rule as it was otherwise; after an invalid condition AddRule accepts
\* the rule, and IsAllowed decides as for the rule without that condition.
C28_InvalidDropped ==
    LET p == objs[1]
        valid == ConditionValid(p.condition)
    IN  /\ last.op = "WithStructuredCondition" =>
              p.rule = IF valid
                       THEN [p.before EXCEPT !.Conditions = MapPut(@, p.key, p.condition)]
                       ELSE p.before
        /\ (last.op = "AddRule" /\ p.calls > 0 /\ ~valid) =>
              /\ last.ret = Ret(FALSE, NoError, 0, 0)
              /\ Len(rules) \in p.stored
              /\ rules[Len(rules)] = p.before
        /\ (last.op = "IsAllowed" /\ p.calls > 0 /\ ~valid) =>
              last.ret \in IsAllowedOutcomes(SharedMaps(rules, p, p.before),
                                             last.resource, last.action, last.ctx)

\* A condition without a type that asks for a role the user lacks was
\* given to the builder; the rule was registered and allows the request
C28_Witness ==
    /\ objs[1].calls > 0
    /\ objs[1].key = "userRole"
    /\ objs[1].condition = Condition("", Equals, StrVal("admin"))
    /\ objs[1].stored = {1}
    /\ DOMAIN rules[1].Conditions = {}
    /\ last.op = "IsAllowed"
    /\ last.ctx \in CallerContexts /\ "admin" \notin ContextRoles(last.ctx[1])
    /\ last.ret.kind = "return" /\ last.ret.allowed

\* C29 (Error-category helpers recognise the engine's own errors): the
\* error AddRule returns for an invalid rule satisfies IsInvalidRuleError
\* and has code INVALID_RULE, the error IsAllowed returns for a nil context
\* satisfies IsInvalidContextError and has code INVALID_CONTEXT, and no
\* helper of another category accepts either.
C29_HelpersRecognise ==
    LET err == last.ret.err
    IN  /\ (last.op = "AddRule" /\ last.ret.kind = "return" /\ err # NoError) =>
              /\ IsInvalidRuleError(err)
              /\ Code(err) = ErrCodeInvalidRule
              /\ ~IsInvalidContextError(err)
              /\ ~IsInvalidConditionError(err)
              /\ ~IsEvaluationError(err)
        /\ (last.op = "IsAllowed" /\ last.ctx = <<>> /\ last.ret.kind = "return") =>
              /\ IsInvalidContextError(err)
              /\ Code(err) = ErrCodeInvalidContext
              /\ ~IsInvalidRuleError(err)
              /\ ~IsInvalidConditionError(err)
              /\ ~IsEvaluationError(err)

(***************************************************************************)
(* Two engines and one caller.  objs is [heap, engines, rule, stored,      *)
(* on]: the Engine structs by address (rule collection and, as the         *)
(* specification describes it, evaluator registry), the addresses the two  *)
(* NewEngine calls returned, the caller's rule object, for each address    *)
(* the places that hold a copy of it, and the engine the latest call was   *)
(* made on (0: a call on the rule object).  The variable rules is not      *)
(* used here.                                                              *)
(***************************************************************************)
\* NewEngine that hands out one package-wide Engine
NewEngine_Singleton(heap) == 1

\* NewEngine: &Engine{...}, a new address
NewEngine(heap) == Cardinality(DOMAIN heap) + 1

EmptyEngine == [rules |-> <<>>, registry |-> BuiltinEvaluators]

Allocate(heap, a) == [x \in (DOMAIN heap) \cup {a} |-> EmptyEngine]

Collection(e) == objs.heap[objs.engines[e]].rules
Registry(e) == objs.heap[objs.engines[e]].registry

InitEngines ==
    LET a1 == NewEngine(<<>>)
        h1 == Allocate(<<>>, a1)
        a2 == NewEngine(h1)
        h2 == Allocate(h1, a2)
    IN  /\ rules = <<>>
        /\ last = NoCall
        /\ mu = Unlocked
        /\ objs = [heap |-> h2, engines |-> <<a1, a2>>,
                   rule |-> Base("docs", "read", Allow),
                   stored |-> [a \in DOMAIN h2 |-> {}],
                   on |-> 0]
        /\ procs = <<>>
        /\ registry = <<>>

\* engines[e].AddRule(p) for the caller's object p
EngineAddRule(e) ==
    LET a == objs.engines[e]
    IN  \E o \in AddRuleOutcomes(objs.heap[a].rules, <<objs.rule>>) :
            /\ Len(o.rules) <= MaxRules
            /\ objs' = [objs EXCEPT
                           !.heap[a].rules = o.rules,
                           !.stored[a] = IF Len(o.rules) > Len(objs.heap[a].rules)
                                         THEN @ \cup {Len(o.rules)} ELSE @,
                           !.on = e]
            /\ last' = [NoCall EXCEPT !.op = "AddRule", !.rule = <<objs.rule>>, !.ret = o.ret]
            /\ UNCHANGED <<rules, mu, procs, registry>>

\* engines[e].Register(kind, evaluator)
EngineRegister(e, kind, evaluator) ==
    LET a == objs.engines[e]
    IN  /\ objs' = [objs EXCEPT
                       !.heap[a].registry = RegistryPut(@, kind, evaluator),
                       !.on = e]
        /\ last' = [NoCall EXCEPT !.op = "Register"]
        /\ UNCHANGED <<rules, mu, procs, registry>>

\* engines[e].IsAllowed("docs", "read", ctxp)
EngineIsAllowed(e, ctxp) ==
    \E o \in IsAllowedOutcomes(Collection(e), "docs", "read", ctxp) :
        /\ objs' = [objs EXCEPT !.on = e]
        /\ last' = [NoCall EXCEPT !.op = "IsAllowed", !.resource = "docs",
                                  !.action = "read", !.ctx = ctxp, !.ret = o]
        /\ UNCHANGED <<rules, mu, procs, registry>>

\* A builder call on the caller's object that leaves it as r: the copies
\* in both engines hold the same Conditions and Metadata maps
MutateRule(r, op) ==
    /\ objs' = [objs EXCEPT
                   !.rule = r,
                   !.heap = [a \in DOMAIN objs.heap |->
                               [objs.heap[a] EXCEPT
                                   !.rules = SharedMaps(@, [stored |-> objs.stored[a]], r)]],
                   !.on = 0]
    /\ last' = [NoCall EXCEPT !.op = op]
    /\ UNCHANGED <<rules, mu, procs, registry>>

NextEngines ==
    \/ \E e \in {1, 2} : EngineAddRule(e)
    \/ \E e \in {1, 2}, evaluator \in Evaluators :
           EngineRegister(e, CustomCondition, evaluator)
    \/ \E e \in {1, 2}, ctxp \in CallerContexts : EngineIsAllowed(e, ctxp)
    \/ \E effect \in {Allow, Deny} :
           /\ effect # objs.rule.Effect
           /\ MutateRule(WithEffect(objs.rule, effect), "WithEffect")
    \/ \E role \in {"admin", "user"} :
           MutateRule(WithCondition(objs.rule, "userRole", StrVal(role)), "WithCondition")

SpecEngines == InitEngines /\ [][NextEngines]_vars

\* C30 (Engine instances are independent): a call of AddRule, Register or
\* IsAllowed on one engine leaves the rule collection, the evaluator
\* registry and every decision of the other engine as they were, also
\* when both hold copies of one rule object that is mutated and registered
\* again.
C30_Independent ==
    [][\A e \in {1, 2} :
          objs'.on = e =>
              LET other == 3 - e
              IN  /\ Collection(other)' = Collection(other)
                  /\ Registry(other)' = Registry(other)
                  /\ \A ctxp \in CallerContexts :
                        IsAllowedOutcomes(Collection(other)', "docs", "read", ctxp)
                            = IsAllowedOutcomes(Collection(other), "docs", "read", ctxp)]_vars

\* The object is stored in both engines, was then changed and registered
\* once more in the first engine only, and the second engine got an
\* evaluator of its own
C30_Witness ==
    /\ objs.on = 1
    /\ last.op = "AddRule"
    /\ objs.stored[objs.engines[1]] = {1, 2}
    /\ objs.stored[objs.engines[2]] = {1}
    /\ Collection(1)[2].Effect # Collection(2)[1].Effect
    /\ Collection(1)[1].Effect = Collection(2)[1].Effect
    /\ DOMAIN Collection(2)[1].Conditions # {}
    /\ Registry(2) # Registry(1)

====
